---- MODULE Spec2Model ----
(***************************************************************************)
(* Model of poker.py: card parsing (read_cards), grouping into hands       *)
(* (chunk, read_hand), the HandRater registry and its match functions,     *)
(* and the winner decision of the main loop.                               *)
(***************************************************************************)
EXTENDS Integers, Sequences, FiniteSets, TLC

VARIABLES match_fns, reg_log, reg_hand, reg_rated,
          token, parsed,
          chunk_in, hand, rated, pc,
          pending, player_1, player_2, winner, games_won, main_pc

vars == <<match_fns, reg_log, reg_hand, reg_rated, token, parsed,
          chunk_in, hand, rated, pc,
          pending, player_1, player_2, winner, games_won, main_pc>>

regVars == <<reg_log, reg_hand, reg_rated>>
parseVars == <<token, parsed>>
handVars == <<chunk_in, hand, rated, pc>>
gameVars == <<pending, player_1, player_2, winner, games_won, main_pc>>

(***************************************************************************)
(* Bounds of the model.                                                    *)
(***************************************************************************)
\* Card values of the hands explored: 2..LowTop and the ace.
LowTop == 6
\* Suit characters of the hands explored (the code only compares suits).
Suits == {"C", "H"}
\* Longest token given to read_cards.
MaxTokLen == 3
\* Most register_match_fn calls explored in an arbitrary order.
MaxRegs == 3

(***************************************************************************)
(* class HandType(IntEnum)                                                 *)
(***************************************************************************)
HIGH_CARD == 1
PAIR == 2
TWO_PAIRS == 3
THREE_OF_A_KIND == 4
STRAIGHT == 5
FLUSH == 6
FULL_HOUSE == 7
FOUR_OF_A_KIND == 8
STRAIGHT_FLUSH == 9

HandType == HIGH_CARD..STRAIGHT_FLUSH

\* pictures = {"A": 14, "K": 13, "Q": 12, "J": 11, "T": 10}
ACE == 14
KING == 13
QUEEN == 12
JACK == 11
TEN == 10

\* chunk(cards, 5) in read_hand
HAND_SIZE == 5
\* chunk(rated hands, 2) in the main loop
GAME_SIZE == 2

(***************************************************************************)
(* Python values: None, int, tuple of ints.                                *)
(***************************************************************************)
None == [t |-> "None", i |-> 0, s |-> <<>>]
PyInt(n) == [t |-> "int", i |-> n, s |-> <<>>]
PyTuple(sq) == [t |-> "tuple", i |-> 0, s |-> sq]

\* `if value:` in rate_hand: None, 0 and the empty tuple are false.
Truthy(v) ==
    CASE v.t = "None" -> FALSE
      [] v.t = "int" -> v.i # 0
      [] v.t = "tuple" -> v.s # <<>>

\* ord() of the characters used as suits; tuples of (value, suit) are
\* ordered by value and then by the suit's code point.
Ord(c) ==
    CASE c = "C" -> 67
      [] c = "D" -> 68
      [] c = "H" -> 72
      [] c = "S" -> 83
      [] OTHER -> 0

\* (value, suit) > (value, suit) as Python orders tuples
CardGt(a, b) ==
    \/ a[1] > b[1]
    \/ a[1] = b[1] /\ Ord(a[2]) > Ord(b[2])

\* insert card c into a descending list, after the elements not below it
RECURSIVE InsertDesc(_, _)
InsertDesc(c, sq) ==
    IF sq = <<>> THEN <<c>>
    ELSE IF CardGt(c, Head(sq)) THEN <<c>> \o sq
    ELSE <<Head(sq)>> \o InsertDesc(c, Tail(sq))

\* sorted(hand, reverse=True)
RECURSIVE SortedReverse(_)
SortedReverse(sq) ==
    IF sq = <<>> THEN <<>>
    ELSE InsertDesc(sq[Len(sq)], SortedReverse(SubSeq(sq, 1, Len(sq) - 1)))

\* read_hand without the sort
read_hand_unsorted(cards) == cards

\* read_hand: each chunk of cards, sorted descending
read_hand(cards) == SortedReverse(cards)

(***************************************************************************)
(* is_flush, get_groups                                                    *)
(***************************************************************************)
is_flush(h) == Cardinality({h[i][2] : i \in 1..Len(h)}) = 1

\* Counter(card[0] for card in hand)
Counter(h) ==
    [v \in {h[i][1] : i \in 1..Len(h)} |->
        Cardinality({i \in 1..Len(h) : h[i][1] = v})]

\* the pairs ordered by count descending but by card ascending
PairGt_cardAscending(a, b) == a[1] > b[1] \/ (a[1] = b[1] /\ a[2] < b[2])

\* (count, card) > (count, card)
PairGt(a, b) == a[1] > b[1] \/ (a[1] = b[1] /\ a[2] > b[2])

\* sorted(pairs, reverse=True) of a set of distinct (count, card) pairs
RECURSIVE SortedPairs(_)
SortedPairs(S) ==
    IF S = {} THEN <<>>
    ELSE LET m == CHOOSE x \in S : \A y \in S \ {x} : PairGt(x, y)
         IN  <<m>> \o SortedPairs(S \ {m})

\* get_groups: (groupings, cards); zip(*...) of no pairs raises, the hand
\* given is never empty.
get_groups(h) ==
    LET c == Counter(h)
        srt == SortedPairs({<<c[v], v>> : v \in DOMAIN c})
    IN  [groupings |-> [k \in 1..Len(srt) |-> srt[k][1]],
         cards |-> [k \in 1..Len(srt) |-> srt[k][2]]]

\* groupings[:2]
FirstTwo(sq) == SubSeq(sq, 1, IF Len(sq) < 2 THEN Len(sq) ELSE 2)

(***************************************************************************)
(* The match functions                                                     *)
(***************************************************************************)
check_highest_card(h) == PyTuple([k \in 1..Len(h) |-> h[k][1]])

check_pair(h) ==
    LET g == get_groups(h)
    IN  IF FirstTwo(g.groupings) = <<2, 1>> THEN PyTuple(g.cards) ELSE None

check_two_pairs(h) ==
    LET g == get_groups(h)
    IN  IF FirstTwo(g.groupings) = <<2, 2>> THEN PyTuple(g.cards) ELSE None

check_three_oak(h) ==
    LET g == get_groups(h)
    IN  IF FirstTwo(g.groupings) = <<3, 1>> THEN PyTuple(g.cards) ELSE None

\* a straight check that also takes Ace,5,4,3,2
check_straight_wheel(h) ==
    IF \/ \A k \in 1..(Len(h) - 1) : h[k][1] - h[k + 1][1] = 1
       \/ [k \in 1..Len(h) |-> h[k][1]] = <<ACE, 5, 4, 3, 2>>
    THEN PyInt(h[1][1]) ELSE None

check_straight(h) ==
    IF \A k \in 1..(Len(h) - 1) : h[k][1] - h[k + 1][1] = 1
    THEN PyInt(h[1][1]) ELSE None

check_flush(h) == IF is_flush(h) THEN check_highest_card(h) ELSE None

\* a full house check that looks at the largest group only
check_full_house_loose(h) ==
    LET g == get_groups(h)
    IN  IF SubSeq(g.groupings, 1, 1) = <<3>> THEN PyTuple(g.cards) ELSE None

check_full_house(h) ==
    LET g == get_groups(h)
    IN  IF FirstTwo(g.groupings) = <<3, 2>> THEN PyTuple(g.cards) ELSE None

check_four_oak(h) ==
    LET g == get_groups(h)
    IN  IF FirstTwo(g.groupings) = <<4, 1>> THEN PyTuple(g.cards) ELSE None

check_straight_flush(h) == IF is_flush(h) THEN check_straight(h) ELSE None

\* fn(hand) for a registered function, named by its def
CallFn(fn, h) ==
    CASE fn = "check_highest_card" -> check_highest_card(h)
      [] fn = "check_pair" -> check_pair(h)
      [] fn = "check_two_pairs" -> check_two_pairs(h)
      [] fn = "check_three_oak" -> check_three_oak(h)
      [] fn = "check_straight" -> check_straight(h)
      [] fn = "check_flush" -> check_flush(h)
      [] fn = "check_full_house" -> check_full_house(h)
      [] fn = "check_four_oak" -> check_four_oak(h)
      [] fn = "check_straight_flush" -> check_straight_flush(h)

(***************************************************************************)
(* class HandRater                                                         *)
(***************************************************************************)
\* insert entry e into a list sorted by value descending, keeping it after
\* the entries of equal value (the sort is stable)
RECURSIVE InsertByValue(_, _)
InsertByValue(e, sq) ==
    IF sq = <<>> THEN <<e>>
    ELSE IF e[1] > Head(sq)[1] THEN <<e>> \o sq
    ELSE <<Head(sq)>> \o InsertByValue(e, Tail(sq))

\* match_fns.sort(key=lambda x: x[0], reverse=True)
RECURSIVE SortByValue(_)
SortByValue(sq) ==
    IF sq = <<>> THEN <<>>
    ELSE InsertByValue(sq[Len(sq)], SortByValue(SubSeq(sq, 1, Len(sq) - 1)))

\* register_match_fn without the sort
register_match_fn_nosort(fns, value, fn) == Append(fns, <<value, fn>>)

\* register_match_fn(value)(fn): append, then sort
register_match_fn(fns, value, fn) == SortByValue(Append(fns, <<value, fn>>))

\* the decorators of the module, in the order the module applies them
Decorators ==
    << <<HIGH_CARD, "check_highest_card">>,
       <<PAIR, "check_pair">>,
       <<TWO_PAIRS, "check_two_pairs">>,
       <<THREE_OF_A_KIND, "check_three_oak">>,
       <<STRAIGHT, "check_straight">>,
       <<FLUSH, "check_flush">>,
       <<FULL_HOUSE, "check_full_house">>,
       <<FOUR_OF_A_KIND, "check_four_oak">>,
       <<STRAIGHT_FLUSH, "check_straight_flush">> >>

\* HandRater.match_fns once the module is imported
RECURSIVE RegisterAll(_)
RegisterAll(ds) ==
    IF ds = <<>> THEN <<>>
    ELSE LET d == ds[Len(ds)]
         IN  register_match_fn(RegisterAll(SubSeq(ds, 1, Len(ds) - 1)), d[1], d[2])

ImportedFns == RegisterAll(Decorators)

\* what rate_hand returns: (rank, value), or None when no function matches
NoRating == [t |-> "None", rank |-> 0, value |-> None]
Rating(rank, value) == [t |-> "tuple", rank |-> rank, value |-> value]

RECURSIVE rate_hand(_, _)
rate_hand(fns, h) ==
    IF fns = <<>> THEN NoRating
    ELSE LET value == CallFn(Head(fns)[2], h)
         IN  IF Truthy(value) THEN Rating(Head(fns)[1], value)
             ELSE rate_hand(Tail(fns), h)

(***************************************************************************)
(* read_cards                                                              *)
(***************************************************************************)
Digits == {"0", "1", "2", "3", "4", "5", "6", "7", "8", "9"}

\* int(c) of a one-character string that is a digit
IntOf(c) ==
    CASE c = "0" -> 0 [] c = "1" -> 1 [] c = "2" -> 2 [] c = "3" -> 3
      [] c = "4" -> 4 [] c = "5" -> 5 [] c = "6" -> 6 [] c = "7" -> 7
      [] c = "8" -> 8 [] c = "9" -> 9

\* c.upper()
Upper(c) ==
    CASE c = "a" -> "A" [] c = "k" -> "K" [] c = "q" -> "Q"
      [] c = "j" -> "J" [] c = "t" -> "T" [] OTHER -> c

PictureKeys == {"A", "K", "Q", "J", "T"}

pictures(c) ==
    CASE c = "A" -> ACE [] c = "K" -> KING [] c = "Q" -> QUEEN
      [] c = "J" -> JACK [] c = "T" -> TEN

\* what one pass of the inner loop of read_cards does with a token: a card
\* is yielded, or the exception that leaves the generator
NoCard == [status |-> "none", value |-> 0, suit |-> ""]
Yield(value, suit) == [status |-> "card", value |-> value, suit |-> suit]
Raise(exc) == [status |-> exc, value |-> 0, suit |-> ""]

read_card(tok) ==
    IF Len(tok) = 0 THEN Raise("IndexError")
    ELSE IF tok[1] \in Digits
         THEN IF Len(tok) < 2 THEN Raise("IndexError")
              ELSE Yield(IntOf(tok[1]), tok[2])
         ELSE IF Upper(tok[1]) \notin PictureKeys THEN Raise("KeyError")
              ELSE IF Len(tok) < 2 THEN Raise("IndexError")
                   ELSE Yield(pictures(Upper(tok[1])), tok[2])

(***************************************************************************)
(* Inputs explored                                                         *)
(***************************************************************************)
\* characters of the tokens given to read_cards
TokChars == Digits \cup PictureKeys \cup {"a", "t", "X", "S", "H"}

Tokens == UNION {[1..n -> TokChars] : n \in 0..MaxTokLen}

\* values of the cards of the hands explored
Ranks == (2..LowTop) \cup {ACE}

Cards == Ranks \X Suits

\* what chunk(cards, 5) can yield: 5 cards, or the 1 to 4 cards left at the
\* end of the input
Chunks == UNION {[1..n -> Cards] : n \in 1..HAND_SIZE}

\* one chunk of each multiset of cards: the one that arrives highest first
DescendingChunks == {read_hand(c) : c \in Chunks}

(***************************************************************************)
(* The specifications                                                      *)
(***************************************************************************)
RegIdle ==
    /\ reg_log = <<>>
    /\ reg_hand = <<>>
    /\ reg_rated = NoRating

ParseIdle ==
    /\ token = <<>>
    /\ parsed = NoCard

HandIdle ==
    /\ chunk_in = <<>>
    /\ hand = <<>>
    /\ rated = NoRating
    /\ pc = "idle"

GameIdle ==
    /\ pending = <<>>
    /\ player_1 = NoRating
    /\ player_2 = NoRating
    /\ winner = "none"
    /\ games_won = [p \in {"Player 1", "Player 2"} |-> 0]
    /\ main_pc = "idle"

\* ---- read_cards on one token ----
InitParse ==
    /\ match_fns = ImportedFns
    /\ RegIdle /\ HandIdle /\ GameIdle
    /\ token \in Tokens
    /\ parsed = NoCard

ReadCards ==
    /\ parsed = NoCard
    /\ parsed' = read_card(token)
    /\ UNCHANGED <<match_fns, regVars, token, handVars, gameVars>>

NextParse == ReadCards

SpecParse == InitParse /\ [][NextParse]_vars

\* ---- one chunk through read_hand and rate_hand ----
InitHand ==
    /\ match_fns = ImportedFns
    /\ RegIdle /\ ParseIdle /\ GameIdle
    /\ chunk_in \in DescendingChunks
    /\ hand = <<>>
    /\ rated = NoRating
    /\ pc = "chunked"

ReadHand ==
    /\ pc = "chunked"
    /\ hand' = read_hand(chunk_in)
    /\ pc' = "sorted"
    /\ UNCHANGED <<match_fns, regVars, parseVars, chunk_in, rated, gameVars>>

RateHand ==
    /\ pc = "sorted"
    /\ rated' = rate_hand(match_fns, hand)
    /\ pc' = "rated"
    /\ UNCHANGED <<match_fns, regVars, parseVars, chunk_in, hand, gameVars>>

NextHand == ReadHand \/ RateHand

SpecHand == InitHand /\ [][NextHand]_vars

\* ---- a chunk of five cards in every order of arrival ----
InitOrder ==
    /\ match_fns = ImportedFns
    /\ RegIdle /\ ParseIdle /\ GameIdle
    /\ chunk_in \in [1..HAND_SIZE -> Cards]
    /\ hand = <<>>
    /\ rated = NoRating
    /\ pc = "chunked"

SpecOrder == InitOrder /\ [][NextHand]_vars

\* ---- register_match_fn called in any order, then rate_hand ----
\* hands rated against the registries explored: one of each category of
\* the decision table, and the ace-low hand
RegHands ==
    { << <<6, "C">>, <<5, "C">>, <<4, "C">>, <<3, "C">>, <<2, "C">> >>,
      << <<4, "H">>, <<4, "C">>, <<4, "C">>, <<4, "C">>, <<2, "H">> >>,
      << <<3, "H">>, <<3, "C">>, <<3, "C">>, <<2, "H">>, <<2, "C">> >>,
      << <<ACE, "H">>, <<6, "H">>, <<4, "H">>, <<3, "H">>, <<2, "H">> >>,
      << <<6, "H">>, <<5, "C">>, <<4, "C">>, <<3, "H">>, <<2, "C">> >>,
      << <<5, "H">>, <<5, "C">>, <<5, "C">>, <<ACE, "C">>, <<2, "C">> >>,
      << <<ACE, "H">>, <<ACE, "C">>, <<3, "H">>, <<3, "C">>, <<2, "C">> >>,
      << <<ACE, "H">>, <<6, "C">>, <<4, "C">>, <<2, "H">>, <<2, "C">> >>,
      << <<ACE, "H">>, <<5, "C">>, <<4, "C">>, <<3, "H">>, <<2, "C">> >> }

\* the (value, function) pairs given to register_match_fn
Entries == {Decorators[k] : k \in 1..Len(Decorators)}

InitReg ==
    /\ match_fns = <<>>
    /\ reg_log = <<>>
    /\ reg_hand \in RegHands
    /\ reg_rated = NoRating
    /\ ParseIdle /\ HandIdle /\ GameIdle

Register(e) ==
    /\ Len(reg_log) < MaxRegs
    /\ match_fns' = register_match_fn(match_fns, e[1], e[2])
    /\ reg_log' = Append(reg_log, e)
    /\ UNCHANGED <<reg_hand, reg_rated, parseVars, handVars, gameVars>>

RateRegistered ==
    /\ reg_rated' = rate_hand(match_fns, reg_hand)
    /\ UNCHANGED <<match_fns, reg_log, reg_hand, parseVars, handVars, gameVars>>

NextReg == (\E e \in Entries : Register(e)) \/ RateRegistered

SpecReg == InitReg /\ [][NextReg]_vars

\* ---- the main loop: two rated hands, then the winner ----
\* a comparison that looks at the first entries only
SeqGt_firstOnly(x, y) == x # <<>> /\ y # <<>> /\ Head(x) > Head(y)

\* tuple > tuple on tuples of ints
RECURSIVE SeqGt(_, _)
SeqGt(x, y) ==
    IF x = <<>> THEN FALSE
    ELSE IF y = <<>> THEN TRUE
    ELSE IF Head(x) # Head(y) THEN Head(x) > Head(y)
    ELSE SeqGt(Tail(x), Tail(y))

\* value > value for two values of one match function
ValueGt(x, y) ==
    CASE x.t = "int" /\ y.t = "int" -> x.i > y.i
      [] x.t = "tuple" /\ y.t = "tuple" -> SeqGt(x.s, y.s)

\* a comparison of the values alone, the rank left out
RatingGt_valueOnly(a, b) ==
    LET key(v) == IF v.t = "int" THEN <<v.i>> ELSE v.s
    IN  SeqGt(key(a.value), key(b.value))

\* player_1 > player_2 on (rank, value) tuples
RatingGt(a, b) ==
    IF a.rank # b.rank THEN a.rank > b.rank
    ELSE IF a.value = b.value THEN FALSE
    ELSE ValueGt(a.value, b.value)

\* the sorted hands of five read_hand yields
Hands5 == {c \in DescendingChunks : Len(c) = HAND_SIZE}

\* what the generator given to chunk(..., 2) yields
RatedHands == {rate_hand(ImportedFns, h) : h \in Hands5}

InitGame ==
    /\ match_fns = ImportedFns
    /\ RegIdle /\ ParseIdle /\ HandIdle
    /\ pending = <<>>
    /\ player_1 = NoRating
    /\ player_2 = NoRating
    /\ winner = "none"
    /\ games_won = [p \in {"Player 1", "Player 2"} |-> 0]
    /\ main_pc = "reading"

\* chunk pulls the next rated hand
NextRated ==
    /\ main_pc = "reading"
    /\ Len(pending) < GAME_SIZE
    /\ \E r \in RatedHands : pending' = Append(pending, r)
    /\ UNCHANGED <<match_fns, regVars, parseVars, handVars,
                   player_1, player_2, winner, games_won, main_pc>>

\* the body of the for loop on a full chunk
Decide ==
    /\ main_pc = "reading"
    /\ Len(pending) = GAME_SIZE
    /\ player_1' = pending[1]
    /\ player_2' = pending[2]
    /\ winner' = IF RatingGt(pending[1], pending[2]) THEN "Player 1" ELSE "Player 2"
    /\ games_won' = [games_won EXCEPT ![winner'] = @ + 1]
    /\ pending' = <<>>
    /\ main_pc' = "decided"
    /\ UNCHANGED <<match_fns, regVars, parseVars, handVars>>

NextGame == NextRated \/ Decide

SpecGame == InitGame /\ [][NextGame]_vars

(***************************************************************************)
(* Properties of classification (SpecHand)                                 *)
(***************************************************************************)
RatedFive == pc = "rated" /\ Len(hand) = HAND_SIZE

\* how many cards of hand h have value r
CountOf(h, r) == Cardinality({k \in 1..Len(h) : h[k][1] = r})

ValuesOf(h) == {h[k][1] : k \in 1..Len(h)}

\* the values held exactly n times
HeldTimes(h, n) == {r \in ValuesOf(h) : CountOf(h, r) = n}

AllSameSuit(h) == \A j, k \in 1..Len(h) : h[j][2] = h[k][2]

\* the values of the hand are five consecutive numbers
Consecutive(h) ==
    \E top \in ValuesOf(h) : ValuesOf(h) = (top - 4)..top

\* the decision table, rows read strongest to weakest
TableType(h) ==
    IF AllSameSuit(h) /\ Consecutive(h) THEN STRAIGHT_FLUSH
    ELSE IF HeldTimes(h, 4) # {} THEN FOUR_OF_A_KIND
    ELSE IF HeldTimes(h, 3) # {} /\ HeldTimes(h, 2) # {} THEN FULL_HOUSE
    ELSE IF AllSameSuit(h) THEN FLUSH
    ELSE IF Consecutive(h) THEN STRAIGHT
    ELSE IF HeldTimes(h, 3) # {} /\ Cardinality(HeldTimes(h, 1)) = 2
         THEN THREE_OF_A_KIND
    ELSE IF Cardinality(HeldTimes(h, 2)) = 2 /\ Cardinality(HeldTimes(h, 1)) = 1
         THEN TWO_PAIRS
    ELSE IF Cardinality(HeldTimes(h, 2)) = 1 /\ Cardinality(HeldTimes(h, 1)) = 3
         THEN PAIR
    ELSE HIGH_CARD

\* C1: a hand of exactly 5 cards is given exactly one HandType by rate_hand,
\* the first row of the decision table (read strongest to weakest) whose
\* condition holds.
C1_FirstRowOfTable ==
    RatedFive => (rated.t = "tuple" /\ rated.rank = TableType(hand))

\* a hand of each of the nine categories has been rated
C1_Witness ==
    /\ RatedFive
    /\ rated.rank = FULL_HOUSE
    /\ AllSameSuit(hand)

\* the TiebreakKey a rating value stands for: the int of the straights is
\* the key of one entry
KeyOf(v) == IF v.t = "int" THEN <<v.i>> ELSE v.s

\* a set of numbers as a descending sequence
RECURSIVE Descending(_)
Descending(S) ==
    IF S = {} THEN <<>>
    ELSE LET m == CHOOSE x \in S : \A y \in S : y <= x
         IN  <<m>> \o Descending(S \ {m})

\* key holds the values of all the cards of h, highest first
AllValuesDescending(key, h) ==
    /\ Len(key) = Len(h)
    /\ \A k \in 1..(Len(key) - 1) : key[k] >= key[k + 1]
    /\ \A r \in ValuesOf(h) : Cardinality({k \in 1..Len(key) : key[k] = r}) = CountOf(h, r)

TableKeyHolds(type, key, h) ==
    CASE type \in {STRAIGHT_FLUSH, STRAIGHT} ->
            key = <<CHOOSE r \in ValuesOf(h) : \A q \in ValuesOf(h) : q <= r>>
      [] type = FOUR_OF_A_KIND ->
            /\ Len(key) = 2
            /\ key = Descending(HeldTimes(h, 4)) \o Descending(HeldTimes(h, 1))
      [] type = FULL_HOUSE ->
            /\ Len(key) = 2
            /\ key = Descending(HeldTimes(h, 3)) \o Descending(HeldTimes(h, 2))
      [] type \in {FLUSH, HIGH_CARD} ->
            /\ Len(key) = 5
            /\ AllValuesDescending(key, h)
      [] type = THREE_OF_A_KIND ->
            /\ Len(key) = 3
            /\ key = Descending(HeldTimes(h, 3)) \o Descending(HeldTimes(h, 1))
      [] type = TWO_PAIRS ->
            /\ Len(key) = 3
            /\ key = Descending(HeldTimes(h, 2)) \o Descending(HeldTimes(h, 1))
      [] type = PAIR ->
            /\ Len(key) = 4
            /\ key = Descending(HeldTimes(h, 2)) \o Descending(HeldTimes(h, 1))

\* C2: the TiebreakKey returned for a hand of 5 cards has the length and the
\* content the decision table gives for the returned category.
C2_KeyOfCategory ==
    RatedFive => TableKeyHolds(rated.rank, KeyOf(rated.value), hand)

\* a pair whose kickers lie on both sides of the pair's value
C2_Witness ==
    /\ RatedFive
    /\ rated.rank = PAIR
    /\ KeyOf(rated.value) = <<4, ACE, 5, 2>>

AceLow(h) ==
    /\ Len(h) = HAND_SIZE
    /\ ValuesOf(h) = {ACE, 5, 4, 3, 2}

\* C6 as stated: a hand of Ace,2,3,4,5 is classified HighCard whatever its
\* suits.
C6_AceLowIsHighCard ==
    (pc = "rated" /\ AceLow(hand)) => rated.rank = HIGH_CARD

\* C6 amended: a hand of Ace,2,3,4,5 is never a Straight or StraightFlush;
\* it is Flush when its five suits are equal and HighCard otherwise.
C6_AceLowNeverStraight ==
    (pc = "rated" /\ AceLow(hand)) =>
        /\ rated.rank \notin {STRAIGHT, STRAIGHT_FLUSH}
        /\ rated.rank = IF AllSameSuit(hand) THEN FLUSH ELSE HIGH_CARD
        /\ KeyOf(rated.value) = <<ACE, 5, 4, 3, 2>>

C6_Witness ==
    /\ pc = "rated"
    /\ AceLow(hand)
    /\ ~AllSameSuit(hand)
    /\ rated.rank = HIGH_CARD

\* C7: a hand that does not hold exactly 5 cards is given no
\* (HandType, TiebreakKey).
C7_ShortHandNotRated ==
    (pc = "rated" /\ Len(hand) # HAND_SIZE) => rated.t # "tuple"

\* how many times card c is in the chunk
TimesIn(sq, c) == Cardinality({k \in 1..Len(sq) : sq[k] = c})

\* the cards S of the chunk sq, highest first, each as often as sq holds it:
\* a function of the multiset of the cards of sq
RECURSIVE HighestFirst(_, _)
HighestFirst(S, sq) ==
    IF S = {} THEN <<>>
    ELSE LET m == CHOOSE x \in S : \A y \in S \ {x} : CardGt(x, y)
         IN  [k \in 1..TimesIn(sq, m) |-> m] \o HighestFirst(S \ {m}, sq)

\* C9: the rating of a group of 5 cards does not depend on the order the
\* cards arrive in: it is the rating of the multiset of the cards, so every
\* permutation of the same 5 cards is rated alike.
C9_OrderOfArrival ==
    (pc = "rated" /\ Len(chunk_in) = HAND_SIZE) =>
        rated = rate_hand(ImportedFns,
                          HighestFirst({chunk_in[k] : k \in 1..Len(chunk_in)}, chunk_in))

\* a straight that arrived out of order
C9_Witness ==
    /\ pc = "rated"
    /\ chunk_in = << <<4, "C">>, <<6, "H">>, <<2, "C">>, <<5, "C">>, <<3, "H">> >>
    /\ rated = Rating(STRAIGHT, PyInt(6))

(***************************************************************************)
(* Properties of the winner decision (SpecGame)                            *)
(***************************************************************************)
Decided == main_pc = "decided"

NoWins == [p \in {"Player 1", "Player 2"} |-> 0]

\* C3: when the HandTypes of the two hands differ, the hand of the higher
\* HandType wins, whatever the TiebreakKeys and whichever player holds it.
C3_CategoryDominates ==
    (Decided /\ player_1.rank # player_2.rank) =>
        /\ winner = IF player_1.rank > player_2.rank THEN "Player 1" ELSE "Player 2"
        /\ games_won = [NoWins EXCEPT ![winner] = 1]

\* the weaker category holds the larger key, and is held by player 1
C3_Witness ==
    /\ Decided
    /\ player_1 = Rating(HIGH_CARD, PyTuple(<<ACE, 6, 5, 3, 2>>))
    /\ player_2 = Rating(PAIR, PyTuple(<<2, 5, 4, 3>>))
    /\ winner = "Player 2"

\* the first position at which two keys of one length differ
FirstDifference(x, y) ==
    CHOOSE k \in 1..Len(x) : x[k] # y[k] /\ \A j \in 1..(k - 1) : x[j] = y[j]

\* C4: two hands of one HandType whose TiebreakKeys differ: the winner is the
\* hand whose key is larger at the first position where the keys differ.
C4_FirstDifferenceDecides ==
    (Decided /\ player_1.rank = player_2.rank
             /\ KeyOf(player_1.value) # KeyOf(player_2.value)) =>
        LET k1 == KeyOf(player_1.value)
            k2 == KeyOf(player_2.value)
        IN  /\ Len(k1) = Len(k2)
            /\ winner = IF k1[FirstDifference(k1, k2)] > k2[FirstDifference(k1, k2)]
                        THEN "Player 1" ELSE "Player 2"
            /\ games_won = [NoWins EXCEPT ![winner] = 1]

\* player 1 wins on the pair although player 2 holds the higher kicker
C4_Witness ==
    /\ Decided
    /\ player_1 = Rating(PAIR, PyTuple(<<5, 4, 3, 2>>))
    /\ player_2 = Rating(PAIR, PyTuple(<<3, ACE, 6, 5>>))
    /\ winner = "Player 1"

\* C5: two hands of the same HandType and the same TiebreakKey: neither
\* player is declared the winner and no win count increases.
C5_TieHasNoWinner ==
    (Decided /\ player_1 = player_2) =>
        /\ winner = "none"
        /\ games_won = NoWins

(***************************************************************************)
(* Properties of read_cards (SpecParse)                                    *)
(***************************************************************************)
\* the value a rank character stands for
ValueOfRankChar(c) ==
    CASE c \in {"2", "3", "4", "5", "6", "7", "8", "9"} -> IntOf(c)
      [] c \in {"T", "t"} -> 10
      [] c \in {"J", "j"} -> 11
      [] c \in {"Q", "q"} -> 12
      [] c \in {"K", "k"} -> 13
      [] c \in {"A", "a"} -> 14
      [] OTHER -> 0

\* C8: no Card comes of a token that is not exactly 2 characters long or
\* whose rank character is not one of 2-9, T, J, Q, K, A; every Card has a
\* rank in 2..14, the one its rank character stands for.
C8_MalformedTokenFails ==
    parsed.status = "card" =>
        /\ Len(token) = 2
        /\ ValueOfRankChar(token[1]) # 0
        /\ parsed.value = ValueOfRankChar(token[1])
        /\ parsed.value \in 2..14

(***************************************************************************)
(* Properties of the registry (SpecReg)                                    *)
(***************************************************************************)
\* how many times entry e is in the list
EntryCount(sq, e) == Cardinality({k \in 1..Len(sq) : sq[k] = e})

\* the rating of hand h by the registered entries S, whatever their order:
\* the entry of the highest value among those whose function matches
BestEntry(S, h) ==
    LET M == {e \in S : Truthy(CallFn(e[2], h))}
    IN  IF M = {} THEN NoRating
        ELSE LET top == CHOOSE e \in M : \A d \in M : d[1] <= e[1]
             IN  Rating(top[1], CallFn(top[2], h))

\* C10: after any sequence of register_match_fn calls match_fns is sorted by
\* value descending and holds each registered pair once for each call; the
\* rating rate_hand returns is that of the strongest registered category
\* that matches, whatever the order of the calls.
C10_RegistrySorted ==
    /\ \A k \in 1..(Len(match_fns) - 1) : match_fns[k][1] >= match_fns[k + 1][1]
    /\ Len(match_fns) = Len(reg_log)
    /\ \A e \in Entries : EntryCount(match_fns, e) = EntryCount(reg_log, e)
    /\ rate_hand(match_fns, reg_hand) =
           BestEntry({reg_log[k] : k \in 1..Len(reg_log)}, reg_hand)

\* the weakest category was registered first and a stronger one matched
C10_Witness ==
    /\ Len(reg_log) = 3
    /\ reg_log[1][1] = HIGH_CARD
    /\ reg_log[2][1] = FLUSH
    /\ reg_log[3][1] = PAIR
    /\ reg_rated.rank = FLUSH

====
